---- MODULE Spec2Model ----
(***************************************************************************)
(* A model of the personal_rag core: the image Metadata Store              *)
(* (core/image_manager.py), the document side with its Vector Index        *)
(* (core/document_manager.py) and the lazily initialised managers          *)
(* (core/search_engine.py).                                                *)
(*                                                                         *)
(* Python strings that the code inspects character by character (names,   *)
(* tags, queries, document text) are sequences of one-character strings;   *)
(* strings the code only compares for equality (categories, content        *)
(* types, directory names) are TLA+ strings.  None and the empty string    *)
(* are both written "" (the code tests them by truthiness only), None and  *)
(* the empty list are both written << >>.                                  *)
(***************************************************************************)
EXTENDS Integers, Sequences, FiniteSets, TLC

VARIABLES
    metadata,   \* ImageManager.metadata: file_name -> record (a Python dict)
    metaFile,   \* content of data/image_metadata.json
    disk,       \* paths that exist under data/images and data/thumbnails
    clock,      \* datetime.now(), as the number of uploads stored so far
    idLog,      \* history: the file name add_image computed for each (bytes, name)
    pc,         \* per request handler: its position in SearchEngine.__init__
    mgrCache,   \* st.cache_resource entry of SearchEngine._init_managers
    idxCache,   \* st.cache_resource entry of DocumentManager._initialize_index
    mgrLock,    \* holder of the compute lock of the _init_managers entry
    idxLock,    \* holder of the compute lock of the _initialize_index entry
    setups,     \* number of times the body of _initialize_index has run
    index,      \* documents held by the vector index, in insertion order
    docsDir,    \* base names of the files in data/documents
    ret         \* the last call: its operation, arguments and return value

imgVars == <<metadata, metaFile, disk, clock, idLog>>
initVars == <<pc, mgrCache, idxCache, mgrLock, idxLock, setups>>
docVars == <<index, docsDir>>
vars == <<metadata, metaFile, disk, clock, idLog, pc, mgrCache, idxCache,
          mgrLock, idxLock, setups, index, docsDir, ret>>

(* ------------------------------ bounds -------------------------------- *)
MaxClock == 2       \* uploads stored during one run
NumHandlers == 2    \* request handlers that construct a SearchEngine
MaxDocs == 2        \* documents inserted into the vector index

(* ------------------------- Python str helpers ------------------------- *)
LowerChar(c) ==
    CASE c = "A" -> "a" [] c = "B" -> "b" [] c = "C" -> "c" [] c = "I" -> "i"
      [] c = "T" -> "t" [] c = "Y" -> "y" [] c = "P" -> "p" [] c = "D" -> "d"
      [] c = "F" -> "f" [] OTHER -> c

Lower(s) == [i \in 1..Len(s) |-> LowerChar(s[i])]

\* Python's `q in s` for strings
IsSubstring(q, s) ==
    \E i \in 0..(Len(s) - Len(q)) : SubSeq(s, i + 1, i + Len(q)) = q

RECURSIVE Join(_, _)
Join(sep, list) ==
    IF list = << >> THEN << >>
    ELSE IF Len(list) = 1 THEN list[1]
    ELSE list[1] \o sep \o Join(sep, Tail(list))

IsSpace(c) == c \in {" ", "\n", "\t"}

RECURSIVE LStrip(_)
LStrip(s) == IF s /= << >> /\ IsSpace(Head(s)) THEN LStrip(Tail(s)) ELSE s

RECURSIVE RStrip(_)
RStrip(s) ==
    IF s /= << >> /\ IsSpace(s[Len(s)]) THEN RStrip(SubSeq(s, 1, Len(s) - 1)) ELSE s

Strip(s) == RStrip(LStrip(s))

\* os.path.splitext on a base name: the extension starts at the last dot that has
\* a character other than a dot before it
SplitExt(base) ==
    LET dots == {i \in 1..Len(base) :
                    base[i] = "." /\ \E j \in 1..(i - 1) : base[j] /= "."}
    IN  IF dots = {} THEN [root |-> base, ext |-> << >>]
        ELSE LET i == CHOOSE d \in dots : \A e \in dots : e <= d
             IN  [root |-> SubSeq(base, 1, i - 1), ext |-> SubSeq(base, i, Len(base))]

\* os.path.join(dir, base), os.path.basename
PathJoin(dir, base) == [dir |-> dir, base |-> base]

EmptyMap == [k \in {} |-> k]

\* dict.get(key, default)
Get(d, key, default) == IF key \in DOMAIN d THEN d[key] ELSE default

DelAll(d, key) == EmptyMap

\* del d[key]
Del(d, key) == [k \in DOMAIN d \ {key} |-> d[k]]

(* --------------------------- image inputs ----------------------------- *)
ImagesDir == "data/images"
ThumbnailsDir == "data/thumbnails"

Wildcard == "quanbu"     \* the "all categories" choice of the pages (U+5168 U+90E8)

\* an allow-list that lets every content type of the uploads through
AnyContentType == {"image/jpeg", "image/png", "image/gif", "image/bmp", "text/plain"}

AllowedTypes == {"image/jpeg", "image/png", "image/gif", "image/bmp"}

NameA == <<"A", ".", "p", "n", "g">>
NameB == <<"b", ".", "j", "p", "g">>

TagBeach == <<"B", "e", "a", "c", "h">>
TagTravel == <<"t", "r", "i", "p">>
TagCity == <<"c", "i", "t", "y">>

\* hashlib.md5(bytes).hexdigest(), abbreviated to its first ten digits
Md5Hex(bytes) ==
    CASE bytes = "png_plain" -> <<"0", "f", "3", "a", "9", "c", "1", "e", "7", "7">>
      [] bytes = "jpg_exif_bytes" -> <<"5", "d", "4", "1", "4", "0", "2", "a", "b", "c">>
      [] bytes = "jpg_exif_tagid" -> <<"9", "e", "1", "0", "7", "d", "9", "d", "3", "7">>
      [] OTHER -> <<"c", "4", "c", "a", "4", "2", "3", "8", "a", "0">>

\* len(bytes): UploadedFile.size
SizeOf(bytes) ==
    CASE bytes = "png_plain" -> 70
      [] bytes = "jpg_exif_bytes" -> 900
      [] bytes = "jpg_exif_tagid" -> 800
      [] OTHER -> 12

\* PIL on the stored bytes: whether Image.open succeeds, and what it reads.
\* An EXIF dictionary maps keys to values; a key or value is [t |-> its Python
\* type, v |-> its content written as text].
PilOpen(bytes) ==
    CASE bytes = "png_plain" ->
            [ok |-> TRUE, width |-> 4, height |-> 3, format |-> "PNG", mode |-> "RGBA",
             exif |-> EmptyMap]
      [] bytes = "jpg_exif_bytes" ->
            [ok |-> TRUE, width |-> 64, height |-> 48, format |-> "JPEG", mode |-> "RGB",
             exif |-> ([t |-> "str", v |-> "Make"] :> [t |-> "str", v |-> "Canon"])
                      @@ ([t |-> "str", v |-> "ExifVersion"] :> [t |-> "bytes", v |-> "0230"])]
      [] bytes = "jpg_exif_tagid" ->
            [ok |-> TRUE, width |-> 32, height |-> 32, format |-> "JPEG", mode |-> "RGB",
             exif |-> ([t |-> "int", v |-> "59932"] :> [t |-> "str", v |-> "pad"])
                      @@ ([t |-> "str", v |-> "YCbCrSubSampling"] :> [t |-> "tuple", v |-> "2,2"])]
      [] OTHER -> [ok |-> FALSE]

\* the files a page may hand to add_image: name, content, reported content type
Uploads ==
    { [name |-> NameA, bytes |-> "png_plain", type |-> "image/png"],
      [name |-> NameA, bytes |-> "jpg_exif_bytes", type |-> "image/jpeg"],
      [name |-> NameB, bytes |-> "jpg_exif_tagid", type |-> "image/jpeg"],
      [name |-> NameB, bytes |-> "not_an_image", type |-> "image/png"],
      [name |-> NameB, bytes |-> "png_plain", type |-> "text/plain"] }

\* category and tags chosen on the upload form
Labelings ==
    { [category |-> "general", tags |-> <<TagBeach, TagTravel>>],
      [category |-> "work", tags |-> <<TagCity>>],
      [category |-> "general", tags |-> << >>] }

\* query, category and tags of a search
SearchArgs ==
    { [query |-> << >>, category |-> "", tags |-> << >>],
      [query |-> << >>, category |-> "general", tags |-> <<Lower(TagBeach)>>],
      [query |-> << >>, category |-> Wildcard, tags |-> <<<<"C", "I", "T", "Y">>, TagTravel>>],
      [query |-> << >>, category |-> "work", tags |-> << >>],
      [query |-> <<"G", " ", "b">>, category |-> "", tags |-> << >>],
      [query |-> <<"j", "p">>, category |-> "work", tags |-> <<TagCity, TagBeach>>] }

(* ----------------------------- JSON ----------------------------------- *)
\* json.dump raises TypeError on a value of a type it cannot serialise
JsonSerializable(v) == v.t \in {"str", "int", "float", "list", "tuple"}

\* a non-string dictionary key is written as its text
JsonKey(k) == [t |-> "str", v |-> k.v]

\* a tuple is written as an array, and read back as a list
JsonValue(v) == IF v.t = "tuple" THEN [t |-> "list", v |-> v.v] ELSE v

JsonDict(d) ==
    [k2 \in {JsonKey(k) : k \in DOMAIN d} |->
        JsonValue(d[CHOOSE k \in DOMAIN d : JsonKey(k) = k2])]

\* a record's own fields are strings, integers and lists of strings, which JSON
\* keeps; "exif" holds whatever PIL returned
JsonRecord(r) == [f \in DOMAIN r |-> IF f = "exif" THEN JsonDict(r[f]) ELSE r[f]]

JsonDumpable(m) ==
    \A f \in DOMAIN m :
        "exif" \in DOMAIN m[f] =>
            \A k \in DOMAIN m[f]["exif"] : JsonSerializable(m[f]["exif"][k])

\* _save_metadata: open(..., 'w') truncates the file, json.dump streams the
\* mapping into it; a TypeError on the way is swallowed and leaves the part
\* written so far
SaveMetadata(m) ==
    IF JsonDumpable(m)
    THEN [kind |-> "json", doc |-> [f \in DOMAIN m |-> JsonRecord(m[f])]]
    ELSE [kind |-> "partial"]

\* json.load on the opened file: the parsed value, or a raised JSONDecodeError
\* when the text is not JSON
JsonLoad(file) ==
    IF file.kind = "json"
    THEN [raised |-> FALSE, value |-> file.doc]
    ELSE [raised |-> TRUE]

\* _load_metadata without its except clause: the error of json.load takes the
\* place of the mapping
LoadMetadataUncaught(file) ==
    IF file.kind = "missing" THEN EmptyMap
    ELSE IF JsonLoad(file).raised THEN [error |-> "JSONDecodeError"]
    ELSE JsonLoad(file).value

\* _load_metadata: {} when the file does not exist; else the parsed mapping, or
\* {} when anything raises while reading it
LoadMetadata(file) ==
    IF file.kind = "missing" THEN EmptyMap
    ELSE IF JsonLoad(file).raised THEN EmptyMap
    ELSE JsonLoad(file).value

(* --------------------------- ImageManager ----------------------------- *)
HashPrefixLen == 8

FileNameByUploadTime(uploaded_file) ==
    <<"t", ToString(clock)>> \o <<"_">> \o uploaded_file.name

\* file_hash = md5(...).hexdigest()[:8]; file_name = f"{file_hash}_{name}"
FileName(uploaded_file) ==
    SubSeq(Md5Hex(uploaded_file.bytes), 1, HashPrefixLen) \o <<"_">> \o uploaded_file.name

ThumbSuffix == <<"_", "t", "h", "u", "m", "b">>

\* _generate_thumbnail: the thumbnail's path and whether it was written; when PIL
\* fails the image's own path is returned
GenerateThumbnail(image_path, bytes) ==
    LET parts == SplitExt(image_path.base)
        thumbnail_name == parts.root \o ThumbSuffix \o parts.ext
    IN  IF PilOpen(bytes).ok
        THEN [path |-> PathJoin(ThumbnailsDir, thumbnail_name), written |-> TRUE]
        ELSE [path |-> image_path, written |-> FALSE]

\* _extract_image_info
ExtractImageInfo(bytes) ==
    LET img == PilOpen(bytes)
    IN  IF img.ok
        THEN [width |-> img.width, height |-> img.height, format |-> img.format,
              mode |-> img.mode, exif |-> img.exif]
        ELSE EmptyMap

\* the record add_image stores: {..., **image_info}
ImageRecord(uploaded_file, dest_path, thumbnail_path, category, tags, now) ==
    ExtractImageInfo(uploaded_file.bytes)
    @@ [original_name |-> uploaded_file.name,
        path |-> dest_path,
        thumbnail_path |-> thumbnail_path,
        category |-> category,
        tags |-> tags,
        upload_time |-> now,
        size |-> SizeOf(uploaded_file.bytes)]

\* add_image
AddImage(uploaded_file, category, tags) ==
    IF uploaded_file.type \notin AllowedTypes
    THEN /\ ret' = [op |-> "add_image", file |-> uploaded_file,
                    error |-> "unsupported image format", value |-> FALSE]
         /\ UNCHANGED imgVars
    ELSE LET file_name == FileName(uploaded_file)
             dest_path == PathJoin(ImagesDir, file_name)
             thumb == GenerateThumbnail(dest_path, uploaded_file.bytes)
             record == ImageRecord(uploaded_file, dest_path, thumb.path, category, tags, clock)
             stored == (file_name :> record) @@ metadata
         IN  /\ clock < MaxClock
             /\ disk' = disk \cup {dest_path} \cup (IF thumb.written THEN {thumb.path} ELSE {})
             /\ metadata' = stored
             /\ metaFile' = SaveMetadata(stored)
             /\ clock' = clock + 1
             /\ idLog' = idLog \cup {[bytes |-> uploaded_file.bytes,
                                      name |-> uploaded_file.name,
                                      file_name |-> file_name]}
             /\ ret' = [op |-> "add_image", file |-> uploaded_file,
                        file_name |-> file_name, value |-> TRUE]

\* the category test of search_images
CategoryMatches(md, category) ==
    ~(category /= "" /\ category /= Wildcard /\ md["category"] /= category)

TagsMatchCaseSensitive(md, tags) ==
    tags /= << >> =>
        \E i \in 1..Len(tags) : tags[i] \in {md["tags"][j] : j \in 1..Len(md["tags"])}

\* the tag test of search_images
TagsMatch(md, tags) ==
    tags /= << >> =>
        \E i \in 1..Len(tags) :
            Lower(tags[i]) \in {Lower(md["tags"][j]) : j \in 1..Len(md["tags"])}

\* a text test that lets every record through
TextTestSkipped(md, query) == TRUE

\* the text test of search_images
TextMatches(md, query) ==
    query /= << >> =>
        IsSubstring(Lower(query),
                    Lower(md["original_name"] \o <<" ">> \o Join(<<" ">>, md["tags"])))

AnyPathExists(path) == TRUE

\* os.path.exists under the data directory
PathExists(path) == path \in disk

\* one element of the list search_images returns
ResultOf(file_name, md) ==
    [file_name |-> file_name,
     original_name |-> md["original_name"],
     path |-> md["path"],
     thumbnail_path |-> Get(md, "thumbnail_path", md["path"]),
     category |-> md["category"],
     tags |-> md["tags"],
     width |-> Get(md, "width", 0),
     height |-> Get(md, "height", 0),
     size |-> Get(md, "size", 0),
     upload_time |-> Get(md, "upload_time", 0),
     format |-> Get(md, "format", "")]

\* results.sort(key=upload_time) without reverse=True
RECURSIVE SortByUploadTimeAsc(_)
SortByUploadTimeAsc(results) ==
    IF results = {} THEN << >>
    ELSE LET first == CHOOSE r \in results :
                          \A o \in results : o["upload_time"] >= r["upload_time"]
         IN  <<first>> \o SortByUploadTimeAsc(results \ {first})

\* results.sort(key=upload_time, reverse=True)
RECURSIVE SortByUploadTimeDesc(_)
SortByUploadTimeDesc(results) ==
    IF results = {} THEN << >>
    ELSE LET first == CHOOSE r \in results :
                          \A o \in results : o["upload_time"] <= r["upload_time"]
         IN  <<first>> \o SortByUploadTimeDesc(results \ {first})

\* search_images
SearchImages(query, category, tags) ==
    SortByUploadTimeDesc(
        { ResultOf(f, metadata[f]) :
            f \in { g \in DOMAIN metadata :
                      /\ CategoryMatches(metadata[g], category)
                      /\ TagsMatch(metadata[g], tags)
                      /\ TextMatches(metadata[g], query)
                      /\ PathExists(metadata[g]["path"]) } })

\* search_images reads metadata["category"], ["tags"], ["original_name"] and
\* ["path"] by subscript, in this order, for every record it has not skipped:
\* a record lacking the key it reaches raises KeyError
SearchRecordRaises(md, query, category, tags) ==
    LET byCategory == category /= "" /\ category /= Wildcard
    IN  IF byCategory /\ "category" \notin DOMAIN md THEN TRUE
        ELSE IF byCategory /\ md["category"] /= category THEN FALSE
        ELSE IF tags /= << >> /\ "tags" \notin DOMAIN md THEN TRUE
        ELSE IF ~TagsMatch(md, tags) THEN FALSE
        ELSE IF query /= << >> /\ ~({"original_name", "tags"} \subseteq DOMAIN md) THEN TRUE
        ELSE IF ~TextMatches(md, query) THEN FALSE
        ELSE IF "path" \notin DOMAIN md THEN TRUE
        ELSE IF ~PathExists(md["path"]) THEN FALSE
        ELSE ~({"original_name", "category", "tags"} \subseteq DOMAIN md)

\* search_images has no try/except: what a record raises leaves the call
SearchImagesCall(args) ==
    /\ ret' = IF \E f \in DOMAIN metadata :
                     SearchRecordRaises(metadata[f], args.query, args.category, args.tags)
               THEN [op |-> "search_images", args |-> args, raised |-> "KeyError"]
               ELSE [op |-> "search_images", args |-> args,
                     value |-> SearchImages(args.query, args.category, args.tags)]
    /\ UNCHANGED imgVars

RECURSIVE SumOver(_, _)
SumOver(S, f) ==
    IF S = {} THEN 0
    ELSE LET x == CHOOSE y \in S : TRUE IN f[x] + SumOver(S \ {x}, f)

\* a count that leaves out the records whose image file is gone
GetImageStatsOfExisting ==
    [total_images |->
        Cardinality({f \in DOMAIN metadata : PathExists(metadata[f]["path"])})]

\* get_image_stats
GetImageStats ==
    LET mds == DOMAIN metadata
        Size == [f \in mds |-> Get(metadata[f], "size", 0)]
        FormatOf(f) == Get(metadata[f], "format", "unknown")
        TagCount(t) ==
            SumOver(mds, [f \in mds |->
                            Cardinality({i \in 1..Len(metadata[f]["tags"]) :
                                            metadata[f]["tags"][i] = t})])
    IN  [total_images |-> Cardinality(mds),
         categories |-> [c \in {metadata[f]["category"] : f \in mds} |->
                            Cardinality({f \in mds : metadata[f]["category"] = c})],
         formats |-> [x \in {FormatOf(f) : f \in mds} |->
                            Cardinality({f \in mds : FormatOf(f) = x})],
         total_size |-> SumOver(mds, Size),
         tags |-> [t \in UNION {{metadata[f]["tags"][i] : i \in 1..Len(metadata[f]["tags"])} :
                                   f \in mds} |-> TagCount(t)]]

\* get_image_stats reads metadata["category"] and metadata["tags"] by subscript
GetImageStatsRaises ==
    \E f \in DOMAIN metadata : ~({"category", "tags"} \subseteq DOMAIN metadata[f])

\* get_image_stats has no try/except either
GetImageStatsCall ==
    /\ ret' = IF GetImageStatsRaises
               THEN [op |-> "get_image_stats", raised |-> "KeyError"]
               ELSE [op |-> "get_image_stats", value |-> GetImageStats]
    /\ UNCHANGED imgVars

RemoveImageOnly(md) == disk \ {md["path"]}

\* the two os.remove calls of delete_image, each behind os.path.exists
RemoveFiles(md) ==
    LET afterImage == IF PathExists(md["path"]) THEN disk \ {md["path"]} ELSE disk
    IN  IF "thumbnail_path" \in DOMAIN md /\ md["thumbnail_path"] \in afterImage
        THEN afterImage \ {md["thumbnail_path"]}
        ELSE afterImage

\* delete_image
DeleteImage(file_name) ==
    IF file_name \in DOMAIN metadata
    THEN LET remaining == Del(metadata, file_name)
         IN  /\ disk' = RemoveFiles(metadata[file_name])
             /\ metadata' = remaining
             /\ metaFile' = SaveMetadata(remaining)
             /\ ret' = [op |-> "delete_image", file_name |-> file_name, value |-> TRUE]
             /\ UNCHANGED <<clock, idLog>>
    ELSE /\ ret' = [op |-> "delete_image", file_name |-> file_name, value |-> FALSE]
         /\ UNCHANGED imgVars

\* a file under data/images is removed from outside the application
ExternalUnlink(path) ==
    /\ path \in disk
    /\ path.dir = ImagesDir
    /\ disk' = disk \ {path}
    /\ ret' = [op |-> "external_unlink", path |-> path]
    /\ UNCHANGED <<metadata, metaFile, clock, idLog>>

FileNames == {FileName(u) : u \in Uploads}

\* the metadata file a run may find: none, unreadable content, an empty mapping
StartFiles ==
    { [kind |-> "missing"], [kind |-> "partial"], [kind |-> "json", doc |-> EmptyMap] }

\* a metadata file that holds JSON of another shape: a mapping whose one record
\* has a name and a path but neither category nor tags
ForeignFile ==
    [kind |-> "json",
     doc |-> (NameB :> [original_name |-> NameB, path |-> PathJoin(ImagesDir, NameB)])]

(* -------------------- lazily initialised managers --------------------- *)
Handlers == 1..NumHandlers

NoEntry == [present |-> FALSE]

IndexCacheMiss == FALSE

\* a cache that keeps only a constructed index, so that a failed
\* _initialize_index runs again on the next call
IndexCacheHitOnSuccess == idxCache.present /\ idxCache.index /= 0

\* @st.cache_resource on _initialize_index(_self): one entry for the function,
\* whatever the instance (the _self argument is not part of the key)
IndexCacheHit == idxCache.present

\* @st.cache_resource on _init_managers(_self)
ManagersCacheHit == mgrCache.present

\* the body of _initialize_index: a chroma client, collection and index are
\* constructed; any exception makes the result (None, None), written index 0
SetupIndex(ok) == [present |-> TRUE, index |-> IF ok THEN setups + 1 ELSE 0]

\* SearchEngine.__init__ calls _init_managers(): the cache is read
InitManagersLookup(h) ==
    /\ pc[h] = "new"
    /\ pc' = [pc EXCEPT ![h] = IF ManagersCacheHit THEN "ready" ELSE "mgr_wait"]
    /\ UNCHANGED <<mgrCache, idxCache, mgrLock, idxLock, setups>>

\* on a miss the entry's compute lock is taken and the cache is read again
InitManagersLock(h) ==
    /\ pc[h] = "mgr_wait"
    /\ mgrLock = 0
    /\ IF ManagersCacheHit
       THEN pc' = [pc EXCEPT ![h] = "ready"] /\ UNCHANGED mgrLock
       ELSE pc' = [pc EXCEPT ![h] = "doc_manager"] /\ mgrLock' = h
    /\ UNCHANGED <<mgrCache, idxCache, idxLock, setups>>

\* DocumentManager.__init__ calls _initialize_index(): the cache is read
InitializeIndexLookup(h) ==
    /\ pc[h] = "doc_manager"
    /\ pc' = [pc EXCEPT ![h] = IF IndexCacheHit THEN "img_manager" ELSE "idx_wait"]
    /\ UNCHANGED <<mgrCache, idxCache, mgrLock, idxLock, setups>>

InitializeIndexLock(h) ==
    /\ pc[h] = "idx_wait"
    /\ idxLock = 0
    /\ IF IndexCacheHit
       THEN pc' = [pc EXCEPT ![h] = "img_manager"] /\ UNCHANGED idxLock
       ELSE pc' = [pc EXCEPT ![h] = "idx_setup"] /\ idxLock' = h
    /\ UNCHANGED <<mgrCache, idxCache, mgrLock, setups>>

\* the body runs, its result is written to the cache and the lock is released
InitializeIndexSetup(h, ok) ==
    /\ pc[h] = "idx_setup"
    /\ idxCache' = SetupIndex(ok)
    /\ setups' = setups + 1
    /\ idxLock' = 0
    /\ pc' = [pc EXCEPT ![h] = "img_manager"]
    /\ UNCHANGED <<mgrCache, mgrLock>>

\* ImageManager.__init__ loads the metadata; _init_managers returns and its
\* result is cached
InitManagersReturn(h) ==
    /\ pc[h] = "img_manager"
    /\ metadata' = LoadMetadata(metaFile)
    /\ mgrCache' = [present |-> TRUE]
    /\ mgrLock' = 0
    /\ pc' = [pc EXCEPT ![h] = "ready"]
    /\ UNCHANGED <<idxCache, idxLock, setups>>

(* -------------------------- DocumentManager --------------------------- *)
DocumentsDir == "data/documents"

UnsupportedPrefix == <<"u", "n", "s", "u", "p", "p", "o", "r", "t", "e", "d", ":", " ">>
ReadErrorPrefix == <<"r", "e", "a", "d", " ", "e", "r", "r", "o", "r", ":", " ">>

\* text += part + "\n" for each page or paragraph
RECURSIVE ConcatLines(_)
ConcatLines(parts) ==
    IF parts = << >> THEN << >> ELSE Head(parts) \o <<"\n">> \o ConcatLines(Tail(parts))

\* os.path.splitext(file_path)[1].lower()
FileExt(file_path) == Lower(SplitExt(file_path.base).ext)

Txt == <<".", "t", "x", "t">>
Md == <<".", "m", "d">>
Pdf == <<".", "p", "d", "f">>
Docx == <<".", "d", "o", "c", "x">>

\* _extract_text_from_file: the text, or a message when the extension is not
\* supported or reading raises
ExtractTextFromFile(file) ==
    LET file_ext == FileExt(file.path)
    IN  IF file_ext \notin {Txt, Md, Pdf, Docx} THEN UnsupportedPrefix \o file_ext
        ELSE IF ~file.readable THEN ReadErrorPrefix \o file.cause
        ELSE IF file_ext \in {Txt, Md} THEN file.text
        ELSE ConcatLines(file.parts)

StartsWith(text, prefix) ==
    Len(text) >= Len(prefix) /\ SubSeq(text, 1, Len(prefix)) = prefix

\* the two messages _extract_text_from_file returns in place of a text
IsErrorResult(text) ==
    StartsWith(text, UnsupportedPrefix) \/ StartsWith(text, ReadErrorPrefix)

SupportedExtensions == {Txt, Md, Pdf, Docx}

IsBlankExact(content) == content = << >>

\* not content.strip()
IsBlank(content) == Strip(content) = << >>

\* the files a caller may hand to add_document
DocFiles ==
    { [path |-> PathJoin("tmp", <<"n", ".", "t", "x", "t">>), readable |-> TRUE,
       text |-> <<"h", "i", "\n">>, size |-> 3],
      [path |-> PathJoin("tmp", <<"e", ".", "T", "X", "T">>), readable |-> TRUE,
       text |-> <<" ", "\n">>, size |-> 2],
      [path |-> PathJoin("tmp", <<"s", ".", "p", "d", "f">>), readable |-> TRUE,
       parts |-> << << >>, << >> >>, size |-> 40],
      [path |-> PathJoin("tmp", <<"b", ".", "p", "d", "f">>), readable |-> FALSE,
       cause |-> <<"E", "O", "F">>, size |-> 7],
      [path |-> PathJoin("tmp", <<"w", ".", "d", "o", "c", "x">>), readable |-> TRUE,
       parts |-> << <<"a">>, <<"b">> >>, size |-> 50],
      [path |-> PathJoin("tmp", <<"x", ".", "c", "s", "v">>), readable |-> TRUE,
       text |-> <<"1", ",", "2">>, size |-> 3] }

PlainNote == <<"n", ".", "t", "x", "t">>

\* the calls a page makes: a file and the category chosen for it
DocUploads ==
    { [file |-> f, category |-> "general"] : f \in DocFiles }
    \cup { [file |-> f, category |-> "work"] : f \in {g \in DocFiles : g.path.base = PlainNote} }

\* the llama_index Document add_document builds
DocumentOf(file, content, category) ==
    [text |-> content,
     metadata |-> [file_path |-> file.path,
                   file_name |-> file.path.base,
                   category |-> category,
                   file_type |-> FileExt(file.path),
                   file_size |-> file.size]]

\* add_document, called by a handler that holds a SearchEngine.  insertOk and
\* copyOk say whether index.insert and shutil.copy2 return or raise.
AddDocument(h, file, category) ==
    LET hit == IndexCacheHit
        entry == IF hit THEN idxCache ELSE SetupIndex(TRUE)
        call == [op |-> "add_document", handler |-> h, file |-> file,
                 category |-> category, index |-> entry.index]
        content == ExtractTextFromFile(file)
        dest_path == PathJoin(DocumentsDir, file.path.base)
    IN  /\ pc[h] = "ready"
        /\ idxCache' = entry
        /\ setups' = IF hit THEN setups ELSE setups + 1
        /\ UNCHANGED <<pc, mgrCache, mgrLock, idxLock>>
        /\ IF entry.index = 0
           THEN /\ ret' = call @@ [value |-> FALSE]
                /\ UNCHANGED docVars
           ELSE IF FileExt(file.path) \notin SupportedExtensions
           THEN /\ ret' = call @@ [value |-> FALSE]
                /\ UNCHANGED docVars
           ELSE IF IsBlank(content)
           THEN /\ ret' = call @@ [content |-> content, value |-> FALSE]
                /\ UNCHANGED docVars
           ELSE /\ Len(index) < MaxDocs
                /\ \E insertOk \in BOOLEAN :
                      IF ~insertOk
                      THEN /\ ret' = call @@ [content |-> content, value |-> FALSE]
                           /\ UNCHANGED docVars
                      ELSE /\ index' = Append(index, DocumentOf(file, content, category))
                           /\ IF file.path = dest_path
                              THEN /\ ret' = call @@ [content |-> content, value |-> TRUE]
                                   /\ UNCHANGED docsDir
                              ELSE \E copyOk \in BOOLEAN :
                                      IF copyOk
                                      THEN /\ ret' = call @@ [content |-> content,
                                                              value |-> TRUE]
                                           /\ docsDir' = docsDir \cup {file.path.base}
                                      ELSE /\ ret' = call @@ [content |-> content,
                                                              value |-> FALSE]
                                           /\ UNCHANGED docsDir

(* ------------------- DocumentManager.search_documents ----------------- *)
PreviewLen == 300
DefaultTopK == 5

Ellipsis == <<".", ".", ".">>

\* node.text[:300] + ("..." if len(node.text) > 300 else node.text)
PreviewMisparsed(text) ==
    SubSeq(text, 1, IF Len(text) > PreviewLen THEN PreviewLen ELSE Len(text))
        \o (IF Len(text) > PreviewLen THEN Ellipsis ELSE text)

\* node.text[:300] + "..." if len(node.text) > 300 else node.text
Preview(text) ==
    IF Len(text) > PreviewLen THEN SubSeq(text, 1, PreviewLen) \o Ellipsis ELSE text

\* the score the vector store gives a chunk for a query; the embedding model is
\* outside the repository, this stand-in counts the query's characters that
\* occur in the chunk
Similarity(query, text) ==
    LET chars == {text[j] : j \in 1..Len(text)}
    IN  Cardinality({i \in 1..Len(query) : query[i] \in chars})

\* the retriever: the k best-scored chunks, best first, equal scores in the
\* order of insertion.  Every document here is shorter than Settings.chunk_size,
\* so each is one chunk
RECURSIVE TopNodes(_, _, _)
TopNodes(positions, score, k) ==
    IF k = 0 \/ positions = {} THEN << >>
    ELSE LET best == CHOOSE i \in positions :
                         \A j \in positions :
                             score[j] < score[i] \/ (score[j] = score[i] /\ i <= j)
         IN  <<[text |-> index[best].text, metadata |-> index[best].metadata,
                score |-> score[best]]>>
                 \o TopNodes(positions \ {best}, score, k - 1)

Scores(query) == [i \in 1..Len(index) |-> Similarity(query, index[i].text)]

\* as_query_engine() without similarity_top_k: every chunk comes back
SourceNodesUnlimited(query, top_k) == TopNodes(1..Len(index), Scores(query), Len(index))

\* index.as_query_engine(similarity_top_k=top_k, ...).query(query).source_nodes
SourceNodes(query, top_k) == TopNodes(1..Len(index), Scores(query), top_k)

\* one element of the list search_documents returns
DocResultOf(node) ==
    [content |-> Preview(node.text),
     file_name |-> Get(node.metadata, "file_name", << >>),
     category |-> Get(node.metadata, "category", ""),
     file_type |-> Get(node.metadata, "file_type", << >>),
     file_size |-> Get(node.metadata, "file_size", 0),
     score |-> node.score]

\* the loop of search_documents over the source nodes, with its category filter
RECURSIVE DocResults(_, _)
DocResults(nodes, category) ==
    IF nodes = << >> THEN << >>
    ELSE LET result == DocResultOf(Head(nodes))
             rest == DocResults(Tail(nodes), category)
         IN  IF category /= "" /\ category /= Wildcard /\ result.category /= category
             THEN rest
             ELSE <<result>> \o rest

\* search_documents on the index handle it got: queryOk says whether the query
\* engine returns or raises
SearchDocuments(handle, query, category, top_k, queryOk) ==
    IF handle = 0 THEN << >>
    ELSE IF ~queryOk THEN << >>
    ELSE DocResults(SourceNodes(query, top_k), category)

SearchDocumentsCall(h, args) ==
    LET hit == IndexCacheHit
        entry == IF hit THEN idxCache ELSE SetupIndex(TRUE)
    IN  /\ pc[h] = "ready"
        /\ idxCache' = entry
        /\ setups' = IF hit THEN setups ELSE setups + 1
        /\ UNCHANGED <<pc, mgrCache, mgrLock, idxLock>>
        /\ \E queryOk \in BOOLEAN :
              ret' = [op |-> "search_documents", args |-> args,
                      value |-> SearchDocuments(entry.index, args.query, args.category,
                                                args.top_k, queryOk)]
        /\ UNCHANGED docVars

\* files longer than the preview and exactly as long as it
LongFile ==
    [path |-> PathJoin("tmp", <<"l", ".", "m", "d">>), readable |-> TRUE,
     text |-> [i \in 1..(PreviewLen + 1) |-> "y"], size |-> PreviewLen + 1]

ExactFile ==
    [path |-> PathJoin("tmp", <<"m", ".", "m", "d">>), readable |-> TRUE,
     text |-> [i \in 1..PreviewLen |-> "z"], size |-> PreviewLen]

NoteFile == CHOOSE f \in DocFiles : f.path.base = PlainNote

\* the uploads and the searches of the document page
SearchDocUploads ==
    { [file |-> NoteFile, category |-> "general"],
      [file |-> NoteFile, category |-> "work"],
      [file |-> LongFile, category |-> "general"],
      [file |-> ExactFile, category |-> "work"] }

DocSearchArgs ==
    { [query |-> q, category |-> c, top_k |-> k] :
        q \in {<<"h", "i">>, <<"y">>}, c \in {"", "work"}, k \in {1, DefaultTopK} }
    \cup { [query |-> << >>, category |-> Wildcard, top_k |-> DefaultTopK] }

\* the size of a file copied into the documents directory
DocSize(base) ==
    (CHOOSE f \in DocFiles \cup {LongFile, ExactFile} : f.path.base = base).size

\* a count of the indexed documents in place of the files
GetDocumentStatsOfIndex ==
    [total_files |-> Len(index),
     categories |-> EmptyMap,
     file_types |-> EmptyMap,
     total_size |-> 0]

\* get_document_stats: the regular files of the documents directory
GetDocumentStats ==
    LET ExtOf(b) == Lower(SplitExt(b).ext)
    IN  [total_files |-> Cardinality(docsDir),
         categories |-> EmptyMap,
         file_types |-> [x \in {ExtOf(b) : b \in docsDir} |->
                            Cardinality({b \in docsDir : ExtOf(b) = x})],
         total_size |-> SumOver(docsDir, [b \in docsDir |-> DocSize(b)])]

(* ---------------------------- SearchEngine ---------------------------- *)
\* get_stats
GetStats ==
    LET doc_stats == GetDocumentStats
        img_stats == GetImageStats
    IN  [documents |-> doc_stats,
         images |-> img_stats,
         total_items |-> doc_stats.total_files + img_stats.total_images]

GetStatsCall(h) ==
    /\ pc[h] = "ready"
    /\ ret' = IF GetImageStatsRaises
               THEN [op |-> "get_stats", raised |-> "KeyError"]
               ELSE [op |-> "get_stats", value |-> GetStats]
    /\ UNCHANGED <<imgVars, initVars, docVars>>

QueriesDocuments(search_type) == search_type \in {"all", "documents"}

\* a scope test that sends every search to the images
QueriesImagesAlways(search_type) == TRUE

QueriesImages(search_type) == search_type \in {"all", "images"}

\* search_all: search_documents with the default top_k, search_images without
\* tags; calls lists the managers' methods it called and their arguments
SearchAllCall(h, args) ==
    LET hit == IndexCacheHit
        entry == IF hit THEN idxCache ELSE SetupIndex(TRUE)
        toDocs == QueriesDocuments(args.search_type)
        toImgs == QueriesImages(args.search_type)
        passed == [query |-> args.query, category |-> args.category]
    IN  /\ pc[h] = "ready"
        /\ idxCache' = IF toDocs THEN entry ELSE idxCache
        /\ setups' = IF toDocs /\ ~hit THEN setups + 1 ELSE setups
        /\ UNCHANGED <<pc, mgrCache, mgrLock, idxLock>>
        /\ \E queryOk \in (IF toDocs THEN BOOLEAN ELSE {TRUE}) :
              ret' =
                IF toImgs /\ \E f \in DOMAIN metadata :
                      SearchRecordRaises(metadata[f], args.query, args.category, << >>)
                THEN [op |-> "search_all", args |-> args, raised |-> "KeyError"]
                ELSE [op |-> "search_all", args |-> args,
                      calls |->
                        (IF toDocs THEN <<[callee |-> "search_documents"] @@ passed>>
                                   ELSE << >>)
                        \o (IF toImgs THEN <<[callee |-> "search_images"] @@ passed>>
                                      ELSE << >>),
                      value |->
                        [documents |->
                            IF toDocs
                            THEN SearchDocuments(entry.index, args.query, args.category,
                                                 DefaultTopK, queryOk)
                            ELSE << >>,
                         images |->
                            IF toImgs
                            THEN SearchImages(args.query, args.category, << >>)
                            ELSE << >>]]
        /\ UNCHANGED <<imgVars, docVars>>

\* the uploads and the searches of the search page and the home page
EngineImageUploads ==
    {u \in Uploads : u.bytes \in {"png_plain", "jpg_exif_tagid"} /\ u.type \in AllowedTypes}

EngineLabelings == {l \in Labelings : l.tags /= << >>}

EngineDocUploads == {u \in DocUploads : u.file.path.base = PlainNote}

SearchAllArgs ==
    { [query |-> q, search_type |-> t, category |-> c] :
        q \in {<<"p", "n">>}, t \in {"all", "documents", "images"},
        c \in {"", "work"} }

(* --------------------------- specifications --------------------------- *)
\* the process starts: nothing is cached, no handler has a SearchEngine yet
Init ==
    /\ metaFile \in StartFiles
    /\ metadata = EmptyMap
    /\ disk = {}
    /\ clock = 0
    /\ idLog = {}
    /\ pc = [h \in Handlers |-> "new"]
    /\ mgrCache = NoEntry
    /\ idxCache = NoEntry
    /\ mgrLock = 0
    /\ idxLock = 0
    /\ setups = 0
    /\ index = << >>
    /\ docsDir = {}
    /\ ret = [op |-> "init"]

\* the state after every handler has constructed its SearchEngine("data")
InitImage ==
    /\ metaFile \in StartFiles
    /\ metadata = LoadMetadata(metaFile)
    /\ disk = {}
    /\ clock = 0
    /\ idLog = {}
    /\ pc = [h \in Handlers |-> "ready"]
    /\ mgrCache = [present |-> TRUE]
    /\ idxCache = [present |-> TRUE, index |-> 1]
    /\ mgrLock = 0
    /\ idxLock = 0
    /\ setups = 1
    /\ index = << >>
    /\ docsDir = {}
    /\ ret = [op |-> "init"]

\* the state after construction over a metadata file of another shape
InitForeign ==
    /\ metaFile = ForeignFile
    /\ metadata = LoadMetadata(metaFile)
    /\ disk = {}
    /\ clock = 0
    /\ idLog = {}
    /\ pc = [h \in Handlers |-> "ready"]
    /\ mgrCache = [present |-> TRUE]
    /\ idxCache = [present |-> TRUE, index |-> 1]
    /\ mgrLock = 0
    /\ idxLock = 0
    /\ setups = 1
    /\ index = << >>
    /\ docsDir = {}
    /\ ret = [op |-> "init"]

\* the state after construction in a fresh data directory
InitFresh == InitImage /\ metaFile.kind = "missing"

NextStartup ==
    \/ \E h \in Handlers :
          InitManagersLookup(h) /\ UNCHANGED <<imgVars, docVars, ret>>
    \/ \E h \in Handlers :
          InitManagersLock(h) /\ UNCHANGED <<imgVars, docVars, ret>>
    \/ \E h \in Handlers :
          InitializeIndexLookup(h) /\ UNCHANGED <<imgVars, docVars, ret>>
    \/ \E h \in Handlers :
          InitializeIndexLock(h) /\ UNCHANGED <<imgVars, docVars, ret>>
    \/ \E h \in Handlers, ok \in BOOLEAN :
          InitializeIndexSetup(h, ok) /\ UNCHANGED <<imgVars, docVars, ret>>
    \/ \E h \in Handlers :
          InitManagersReturn(h) /\ UNCHANGED <<metaFile, disk, clock, idLog, docVars, ret>>

NextDoc ==
    \E h \in Handlers, u \in DocUploads :
          AddDocument(h, u.file, u.category) /\ UNCHANGED imgVars

NextSearch ==
    \/ \E u \in SearchDocUploads :
          AddDocument(1, u.file, u.category) /\ UNCHANGED imgVars
    \/ \E a \in DocSearchArgs :
          SearchDocumentsCall(1, a) /\ UNCHANGED imgVars

\* the handlers' calls on the document side after start-up
StartSearchArgs ==
    {a \in DocSearchArgs : a.query = <<"h", "i">> /\ a.top_k = DefaultTopK}

NextUse ==
    \/ \E h \in Handlers, u \in EngineDocUploads :
          AddDocument(h, u.file, u.category) /\ UNCHANGED imgVars
    \/ \E h \in Handlers, a \in StartSearchArgs :
          SearchDocumentsCall(h, a) /\ UNCHANGED imgVars

NextEngine ==
    \/ \E u \in EngineDocUploads :
          AddDocument(1, u.file, u.category) /\ UNCHANGED imgVars
    \/ \E u \in EngineImageUploads, l \in EngineLabelings :
          AddImage(u, l.category, l.tags) /\ UNCHANGED <<initVars, docVars>>
    \/ \E a \in SearchAllArgs : SearchAllCall(1, a)
    \/ GetStatsCall(1)

NextImage ==
    \/ \E u \in Uploads, l \in Labelings :
          AddImage(u, l.category, l.tags) /\ UNCHANGED <<initVars, docVars>>
    \/ \E f \in FileNames : DeleteImage(f) /\ UNCHANGED <<initVars, docVars>>
    \/ \E a \in SearchArgs : SearchImagesCall(a) /\ UNCHANGED <<initVars, docVars>>
    \/ GetImageStatsCall /\ UNCHANGED <<initVars, docVars>>
    \/ \E p \in disk : ExternalUnlink(p) /\ UNCHANGED <<initVars, docVars>>

Next == NextStartup \/ NextDoc \/ NextImage \/ NextSearch \/ NextEngine \/ NextUse

\* the whole program from process start
Spec == Init /\ [][Next]_vars

\* the document side from process start: SearchEngine construction by the
\* handlers, then add_document
SpecDoc == Init /\ [][NextStartup \/ NextDoc]_vars

\* the image side once the managers are constructed
SpecImage == InitImage /\ [][NextImage]_vars

\* the image side once the managers are constructed over a metadata file of
\* another shape
SpecForeign == InitForeign /\ [][NextImage]_vars

\* the document page once the managers are constructed: uploads and searches
SpecSearch == InitFresh /\ [][NextSearch]_vars

\* the SearchEngine facade once the managers are constructed: uploads of both
\* kinds, search_all and get_stats
SpecEngine == InitFresh /\ [][NextEngine]_vars

\* the document side from process start: SearchEngine construction by the
\* handlers, whose index set-up may fail, then add_document and
\* search_documents
SpecStart == Init /\ [][NextStartup \/ NextUse]_vars

(* ------------------------------ claims -------------------------------- *)
ResultNames(results) == {results[i]["file_name"] : i \in 1..Len(results)}

HasTagOf(md, tags) ==
    \E i \in 1..Len(tags), j \in 1..Len(md["tags"]) : Lower(tags[i]) = Lower(md["tags"][j])

IsFilteredCall ==
    /\ ret.op = "search_images"
    /\ ret.args.query = << >>
    /\ ret.args.category /= ""
    /\ ret.args.tags /= << >>

\* C2 as stated: a search by category C and tags T returns exactly the stored
\* records of category C that carry a tag of T, ignoring case
SearchEqualsMappingScan ==
    IsFilteredCall =>
        ResultNames(ret.value) =
            { f \in DOMAIN metadata :
                /\ metadata[f]["category"] = ret.args.category
                /\ HasTagOf(metadata[f], ret.args.tags) }

\* C2 amended: a search without text returns, once each, exactly the stored
\* records whose image file exists, whose category is C (any category when C is
\* empty or the wildcard) and that carry a tag of T, ignoring case (any tags when
\* T is empty)
SearchEqualsScanOfExistingFiles ==
    (ret.op = "search_images" /\ ret.args.query = << >>) =>
        /\ ResultNames(ret.value) =
              { f \in DOMAIN metadata :
                  /\ metadata[f]["path"] \in disk
                  /\ \/ ret.args.category \in {"", Wildcard}
                     \/ metadata[f]["category"] = ret.args.category
                  /\ \/ ret.args.tags = << >>
                     \/ HasTagOf(metadata[f], ret.args.tags) }
        /\ Len(ret.value) = Cardinality(ResultNames(ret.value))

\* C2 witness: two records stored, a search by the lower-case tag returns the one
\* stored with the capitalised tag
TagSearchReturnsOneOfTwo ==
    /\ IsFilteredCall
    /\ ret.args.category = "general"
    /\ Cardinality(DOMAIN metadata) = 2
    /\ Len(ret.value) = 1
    /\ \A f \in DOMAIN metadata : metadata[f]["path"] \in disk

\* C3: between operations the mapping read back from the metadata file equals the
\* mapping in memory
FileMatchesMemory == LoadMetadata(metaFile) = metadata

\* C4: the body of _initialize_index runs at most once, exactly once as soon as a
\* handler holds its SearchEngine, under one lock holder, and every add_document
\* receives the cached handle
IndexSetUpOnce ==
    /\ setups <= 1
    /\ (\E h \in Handlers : pc[h] = "ready") => (setups = 1 /\ idxCache.present)
    /\ \A h \in Handlers : pc[h] = "idx_setup" => idxLock = h
    /\ ret.op = "add_document" => (idxCache.present /\ ret.index = idxCache.index)

\* C4 witness: every handler holds its SearchEngine and the last of them has
\* called add_document on the index set up once
AllHandlersShareIndex ==
    /\ \A h \in Handlers : pc[h] = "ready"
    /\ ret.op = "add_document"
    /\ ret.handler = NumHandlers
    /\ ret.index = 1
    /\ setups = 1

\* C5: an add_document whose extraction gave an error message returns False, and
\* no document of the index has such a message as its text
NoErrorMessageIndexed ==
    /\ (ret.op = "add_document" /\ "content" \in DOMAIN ret /\ IsErrorResult(ret.content)) =>
          ret.value = FALSE
    /\ \A i \in 1..Len(index) : ~IsErrorResult(index[i].text)

\* C6: an add_document whose extracted text is empty or whitespace returns False
\* and leaves the index and the documents directory as they were; every document
\* of the index has text that is not blank
BlankContentRejected ==
    /\ [][ (ret'.op = "add_document" /\ "content" \in DOMAIN ret'
              /\ Strip(ret'.content) = << >>) =>
                (ret'.value = FALSE /\ index' = index /\ docsDir' = docsDir) ]_vars
    /\ [](\A i \in 1..Len(index) : Strip(index[i].text) /= << >>)

\* C6 witness: a whitespace-only file was refused after another file was indexed
WhitespaceFileRefused ==
    /\ ret.op = "add_document"
    /\ "content" \in DOMAIN ret
    /\ ret.content /= << >>
    /\ Strip(ret.content) = << >>
    /\ ret.value = FALSE
    /\ Len(index) >= 1

\* C7 as stated: a stored record keeps its fields through every step that does
\* not delete it
RecordNeverUpdated ==
    [][ \A f \in DOMAIN metadata \cap DOMAIN metadata' : metadata'[f] = metadata[f] ]_vars

\* C7 amended: a stored record changes only in an add_image that computes its
\* file_id, and leaves the mapping only in a delete_image of its file_id
RecordChangesOnlyByOwnAddOrDelete ==
    [][ \A f \in DOMAIN metadata :
          /\ (f \in DOMAIN metadata' /\ metadata'[f] /= metadata[f]) =>
                (ret'.op = "add_image" /\ ret'.value = TRUE /\ ret'.file_name = f)
          /\ f \notin DOMAIN metadata' =>
                (ret'.op = "delete_image" /\ ret'.value = TRUE /\ ret'.file_name = f)
      ]_vars

\* C7 witness: the same file was uploaded twice and the record carries the second
\* upload's time
RecordReplacedByReupload ==
    /\ ret.op = "add_image"
    /\ ret.value = TRUE
    /\ clock = 2
    /\ Cardinality(idLog) = 1
    /\ DOMAIN metadata = {ret.file_name}
    /\ metadata[ret.file_name]["upload_time"] = 1

\* C8: uploads of the same bytes under the same name were given the same file_id
FileIdDeterministic ==
    \A a \in idLog, b \in idLog :
        (a.bytes = b.bytes /\ a.name = b.name) => a.file_name = b.file_name

\* C8 witness: two uploads were stored and both were of the same bytes and name
SameFileUploadedTwice ==
    /\ clock = 2
    /\ Cardinality(idLog) = 1
    /\ ret.op = "add_image"

\* C9: search_images returns only records whose image file exists, and leaves
\* the mapping, the metadata file and the disk as they were
SearchSkipsStaleKeepsStore ==
    [][ ret'.op = "search_images" =>
          /\ \A i \in 1..Len(ret'.value) : ret'.value[i]["path"] \in disk
          /\ metadata' = metadata
          /\ metaFile' = metaFile
          /\ disk' = disk ]_vars

\* C9 witness: an unfiltered search left out a record whose image file is gone
\* and returned another one
StaleRecordLeftOut ==
    /\ ret.op = "search_images"
    /\ ret.args = [query |-> << >>, category |-> "", tags |-> << >>]
    /\ Len(ret.value) = 1
    /\ Cardinality(DOMAIN metadata) = 2
    /\ \E f \in DOMAIN metadata : metadata[f]["path"] \notin disk

\* C10: saving the mapping held in memory and loading it gives the same mapping
SaveLoadRoundTrip == LoadMetadata(SaveMetadata(metadata)) = metadata

\* C11: once the managers are constructed from a metadata file that is missing
\* or does not hold JSON, the mapping in memory is the empty mapping
MissingOrCorruptLoadsEmpty ==
    (mgrCache.present /\ metaFile.kind \in {"missing", "partial"}) =>
        metadata = EmptyMap

\* C11 witness: the managers were constructed over a metadata file whose content
\* is not JSON, and a handler went on to add a document
StartedFromCorruptFile ==
    /\ mgrCache.present
    /\ metaFile.kind = "partial"
    /\ metadata = EmptyMap
    /\ ret.op = "add_document"

\* C13: an add_image whose content type is none of image/jpeg, image/png,
\* image/gif and image/bmp reports an error, returns False, and leaves the
\* mapping, the metadata file and the disk as they were
UnsupportedTypeRejected ==
    [][ (ret'.op = "add_image"
           /\ ret'.file.type \notin {"image/jpeg", "image/png", "image/gif", "image/bmp"}) =>
              /\ ret'.value = FALSE
              /\ "error" \in DOMAIN ret'
              /\ metadata' = metadata
              /\ metaFile' = metaFile
              /\ disk' = disk ]_vars

\* C13 witness: an upload of another content type was refused while an image
\* is stored
TextUploadRefused ==
    /\ ret.op = "add_image"
    /\ ret.file.type = "text/plain"
    /\ ret.value = FALSE
    /\ metadata /= EmptyMap
    /\ disk /= {}

\* C16: every record a search_images returns has the lower-cased query inside
\* the lower-cased text of its original_name, a space and its tags joined by
\* spaces when a query is given, has the category asked for when one is given,
\* and carries one of the tags asked for when tags are given
SearchAppliesEveryFilter ==
    ret.op = "search_images" =>
        \A i \in 1..Len(ret.value) :
            LET r == ret.value[i] IN
            /\ ret.args.query /= << >> =>
                  IsSubstring(Lower(ret.args.query),
                              Lower(r["original_name"] \o <<" ">> \o Join(<<" ">>, r["tags"])))
            /\ ret.args.category \notin {"", Wildcard} => r["category"] = ret.args.category
            /\ ret.args.tags /= << >> => HasTagOf(r, ret.args.tags)

\* C16 witness: a search by text, category and tags returned one record and
\* left out a stored one that has the category, a tag and its file, but not
\* the text
TextFilterLeftOneOut ==
    /\ ret.op = "search_images"
    /\ ret.args.query /= << >>
    /\ ret.args.category = "work"
    /\ ret.args.tags /= << >>
    /\ Len(ret.value) = 1
    /\ \E f \in DOMAIN metadata \ ResultNames(ret.value) :
          /\ metadata[f]["category"] = "work"
          /\ HasTagOf(metadata[f], ret.args.tags)
          /\ metadata[f]["path"] \in disk

\* C17: the records a search_images returns are in descending order of
\* upload_time
SearchNewestFirst ==
    ret.op = "search_images" =>
        \A i \in 1..Len(ret.value), j \in 1..Len(ret.value) :
            i < j => ret.value[i]["upload_time"] >= ret.value[j]["upload_time"]

\* C17 witness: a search returned two records uploaded at different times
TwoResultsNewestFirst ==
    /\ ret.op = "search_images"
    /\ Len(ret.value) = 2
    /\ ret.value[1]["upload_time"] > ret.value[2]["upload_time"]

\* C12: no operation of the image side leaves its call by raising
NoOperationRaises == "raised" \notin DOMAIN ret

\* C20: an add_document that returns False leaves the index as it was
FailedAddLeavesIndex ==
    [][ (ret'.op = "add_document" /\ ret'.value = FALSE) => index' = index ]_vars

\* C15: a search_documents returns at most top_k results, in descending order
\* of score
AtMostTopKBestFirst ==
    ret.op = "search_documents" =>
        /\ Len(ret.value) <= ret.args.top_k
        /\ \A i \in 1..Len(ret.value), j \in 1..Len(ret.value) :
              i < j => ret.value[i].score >= ret.value[j].score

\* C15 witness: with two documents indexed, a search with top_k = 1 returned
\* the better-scored one, which was inserted second
BestOfTwoReturned ==
    /\ ret.op = "search_documents"
    /\ ret.args.top_k = 1
    /\ Len(index) = 2
    /\ Len(ret.value) = 1
    /\ ret.value[1].file_name = index[2].metadata.file_name
    /\ ret.value[1].score > Similarity(ret.args.query, index[1].text)

\* C19: the content of every result of search_documents is the text of an
\* indexed document of that file name when the text has at most 300
\* characters, and its first 300 characters followed by "..." when it is longer
PreviewCappedWithEllipsis ==
    ret.op = "search_documents" =>
        \A i \in 1..Len(ret.value) :
            \E d \in 1..Len(index) :
                /\ index[d].metadata.file_name = ret.value[i].file_name
                /\ ret.value[i].content =
                      IF Len(index[d].text) <= 300
                      THEN index[d].text
                      ELSE SubSeq(index[d].text, 1, 300) \o <<".", ".", ".">>

\* C19 witness: a search returned a document of 301 characters cut to 303 and
\* a document of 300 characters in full
LongCutExactKept ==
    /\ ret.op = "search_documents"
    /\ Len(ret.value) = 2
    /\ \E i, j \in 1..2 :
          /\ ret.value[i].file_size = 301
          /\ Len(ret.value[i].content) = 303
          /\ ret.value[j].file_size = 300
          /\ Len(ret.value[j].content) = 300

\* C14: a search_all returns a documents list and an images list; with scope
\* "documents" the images list is empty and search_images is not called, with
\* scope "images" the documents list is empty and search_documents is not
\* called, and with scope "all" both are called with the query and category
\* search_all was given
SearchAllRoutesByScope ==
    ret.op = "search_all" =>
        LET Called(c) == \E i \in 1..Len(ret.calls) : ret.calls[i].callee = c
            given == [query |-> ret.args.query, category |-> ret.args.category]
        IN  /\ DOMAIN ret.value = {"documents", "images"}
            /\ ret.args.search_type = "documents" =>
                  (ret.value.images = << >> /\ ~Called("search_images"))
            /\ ret.args.search_type = "images" =>
                  (ret.value.documents = << >> /\ ~Called("search_documents"))
            /\ ret.args.search_type = "all" =>
                  ret.calls = << [callee |-> "search_documents"] @@ given,
                                 [callee |-> "search_images"] @@ given >>

\* C14 witness: with a document and an image stored, a search of scope
\* "documents" returned the document and no image
DocumentsScopeLeavesImagesOut ==
    /\ ret.op = "search_all"
    /\ ret.args.search_type = "documents"
    /\ Len(ret.value.documents) >= 1
    /\ ret.value.images = << >>
    /\ \E f \in DOMAIN metadata :
          /\ metadata[f]["path"] \in disk
          /\ TextMatches(metadata[f], ret.args.query)
          /\ CategoryMatches(metadata[f], ret.args.category)

\* C18: a get_stats returns total_items equal to the number of files in the
\* documents directory plus the number of records of the mapping, these two
\* numbers as documents.total_files and images.total_images, and changes
\* neither the mapping, the metadata file, the disk, the index nor the
\* documents directory
StatsSumAndReadOnly ==
    [][ ret'.op = "get_stats" =>
          /\ ret'.value.documents.total_files = Cardinality(docsDir)
          /\ ret'.value.images.total_images = Cardinality(DOMAIN metadata)
          /\ ret'.value.total_items = Cardinality(docsDir) + Cardinality(DOMAIN metadata)
          /\ metadata' = metadata
          /\ metaFile' = metaFile
          /\ disk' = disk
          /\ index' = index
          /\ docsDir' = docsDir ]_vars

\* C18 witness: get_stats counted one file and two records while the index
\* holds two documents
StatsOfOneFileTwoImages ==
    /\ ret.op = "get_stats"
    /\ ret.value.total_items = 3
    /\ Cardinality(docsDir) = 1
    /\ Len(index) = 2
    /\ Cardinality(DOMAIN metadata) = 2

\* C21: once the cache holds the (None, None) of a failed _initialize_index,
\* the body never runs again and the entry stays; every add_document from then
\* on returns False, every search_documents returns the empty list, and the
\* index stays as it was
FailedSetupIsKept ==
    [][ (idxCache.present /\ idxCache.index = 0) =>
          /\ idxCache' = idxCache
          /\ setups' = setups
          /\ index' = index
          /\ ret'.op = "add_document" => ret'.value = FALSE
          /\ ret'.op = "search_documents" => ret'.value = << >> ]_vars

\* C21 witness: the set-up failed, every handler holds its SearchEngine, and
\* the last handler's search came back empty after the single set-up
SearchAfterFailedSetup ==
    /\ idxCache.present
    /\ idxCache.index = 0
    /\ setups = 1
    /\ \A h \in Handlers : pc[h] = "ready"
    /\ ret.op = "search_documents"
    /\ ret.value = << >>

\* C22: in every state the total_images get_image_stats gives is at least the
\* number of results of a search_images without query, category and tags, and
\* equals it exactly when every stored record's image file exists
StatsCountStaleRecords ==
    LET total == GetImageStats.total_images
        found == Len(SearchImages(<< >>, "", << >>))
        stale == {f \in DOMAIN metadata : metadata[f]["path"] \notin disk}
    IN  /\ total >= found
        /\ total = found <=> stale = {}

\* C22 witness: get_image_stats counted two records where an unfiltered search
\* finds one, the other's image file being gone
StatsCountedStaleRecord ==
    /\ ret.op = "get_image_stats"
    /\ ret.value.total_images = 2
    /\ Len(SearchImages(<< >>, "", << >>)) = 1
    /\ \E f \in DOMAIN metadata : metadata[f]["path"] \notin disk
====
